---- MODULE Spec2Model ----
(***************************************************************************)
(* Model of queueboard's PR status timeline (src/better_updated.py):       *)
(* update_state / determine_state_changes fold a list of events into a     *)
(* timeline of PR states, determine_PR_status classifies one state at one  *)
(* date, and total_time_in_status / last_status_update integrate the       *)
(* status timeline.  Datetimes are integers (days), counted from the       *)
(* cutover instant datetime(2024, 7, 9); timedeltas are their differences. *)
(***************************************************************************)
EXTENDS Integers, Sequences, FiniteSets, TLC

VARIABLES
    pc,                \* position of the computation
    creation_time,     \* argument of determine_state_changes
    events,            \* the events consumed so far, in input order
    result,            \* determine_state_changes: the list built so far
    curr_state,        \* determine_state_changes: curr_state
    now,               \* argument of total_time_in_status / last_status_update
    evolution_status,  \* the status timeline the aggregation computed
    total,             \* total_time_in_status, for every status
    last,              \* last_status_update
    heap,              \* the list objects allocated for the labels of the states
    refs,              \* refs[i]: the list object of timeline entry i's labels
    date,              \* determine_PR_status: argument date
    state,             \* determine_PR_status: argument state
    status             \* determine_PR_status: returned status

vars == << pc, creation_time, events, result, curr_state, now,
           evolution_status, total, last, heap, refs, date, state, status >>

----------------------------------------------------------------------------
(* Bounds *)

MaxEvents == 3      \* events of one timeline
MaxTime == 2        \* timestamps of the timeline are 0..MaxTime
MaxLabels == 3      \* labels of a state handed to determine_PR_status
MaxSteps == 2       \* events applied to a state handed to update_state
MaxHeld == 2        \* labels of a state handed to update_state
MaxQueueTime == 4   \* timestamps of the queue-time timelines end at MaxQueueTime
MaxBlockedEvents == 4  \* events of a timeline of blocked labels only

(* datetime(2024, 7, 9), the origin of the model's time axis *)
Cutover == 0

Times == 0..MaxTime
Dates == (Cutover - 1)..(Cutover + 1)

----------------------------------------------------------------------------
(* Enumerations *)

LabelKind ==
    {"WIP", "Review", "Author", "MergeConflict", "Blocked", "Decision",
     "Delegated", "Bors", "Other"}

CIStatus == {"Pass", "Fail", "Running"}

PRChange ==
    {"LabelAdded", "LabelRemoved", "LabelAddedRemoved", "MarkedDraft",
     "MarkedReady", "CIStatusChanged"}

PRStatus ==
    {"NotReady", "Blocked", "AwaitingReview", "AwaitingAuthor",
     "AwaitingDecision", "MergeConflict", "Delegated", "AwaitingBors",
     "Closed", "Contradictory"}

PRState(labels, ci, draft) == [labels |-> labels, ci |-> ci, draft |-> draft]

label_categorisation_rules ==
    [n \in {"WIP", "awaiting-review-DONT-USE", "awaiting-author",
            "blocked-by-other-PR", "blocked-by-batt-PR", "blocked-by-core-PR",
            "blocked-by-qq-PR", "blocked-by-core-relase", "merge-conflict",
            "awaiting-zulip", "delegated", "ready-to-merge",
            "auto-merge-after-CI"} |->
        CASE n = "WIP" -> "WIP"
          [] n = "awaiting-review-DONT-USE" -> "Review"
          [] n = "awaiting-author" -> "Author"
          [] n \in {"blocked-by-other-PR", "blocked-by-batt-PR",
                    "blocked-by-core-PR", "blocked-by-qq-PR",
                    "blocked-by-core-relase"} -> "Blocked"
          [] n = "merge-conflict" -> "MergeConflict"
          [] n = "awaiting-zulip" -> "Decision"
          [] n = "delegated" -> "Delegated"
          [] n \in {"ready-to-merge", "auto-merge-after-CI"} -> "Bors"]

\* the mapping with the statuses of Author and Review exchanged
label_to_prstatus_Exchanged(label) ==
    CASE label = "WIP" -> "NotReady"
      [] label = "Review" -> "AwaitingAuthor"
      [] label = "Author" -> "AwaitingReview"
      [] label = "Blocked" -> "Blocked"
      [] label = "MergeConflict" -> "MergeConflict"
      [] label = "Decision" -> "AwaitingDecision"
      [] label = "Delegated" -> "Delegated"
      [] label = "Bors" -> "AwaitingBors"

label_to_prstatus(label) ==
    CASE label = "WIP" -> "NotReady"
      [] label = "Review" -> "AwaitingReview"
      [] label = "Author" -> "AwaitingAuthor"
      [] label = "Blocked" -> "Blocked"
      [] label = "MergeConflict" -> "MergeConflict"
      [] label = "Decision" -> "AwaitingDecision"
      [] label = "Delegated" -> "Delegated"
      [] label = "Bors" -> "AwaitingBors"

----------------------------------------------------------------------------
(* Python list operations *)

\* [x for x in s if Keep(x)]
RECURSIVE SelectSeqIn(_, _)
SelectSeqIn(s, keep) ==
    IF s = << >> THEN << >>
    ELSE IF Head(s) \in keep
         THEN << Head(s) >> \o SelectSeqIn(Tail(s), keep)
         ELSE SelectSeqIn(Tail(s), keep)

\* x in s
Contains(s, x) == \E i \in 1..Len(s) : s[i] = x

\* [y for y in s if y != x]: drops every occurrence of x
ListRemove_All(s, x) ==
    LET keep == {i \in 1..Len(s) : s[i] # x}
        pos(n) == CHOOSE i \in keep : Cardinality({j \in keep : j <= i}) = n
    IN  [n \in 1..Cardinality(keep) |-> s[pos(n)]]

\* s.remove(x): drops the first occurrence of x; ValueError when there is none
ListRemove(s, x) ==
    LET i == CHOOSE j \in 1..Len(s) :
                 s[j] = x /\ \A k \in 1..(j - 1) : s[k] # x
    IN  SubSeq(s, 1, i - 1) \o SubSeq(s, i + 1, Len(s))

\* for r in removed: s.remove(r), passing over a kind that is not held
RECURSIVE RemoveAll_SkipMissing(_, _)
RemoveAll_SkipMissing(s, removed) ==
    IF removed = << >> THEN [raised |-> FALSE, labels |-> s]
    ELSE IF ~Contains(s, Head(removed))
    THEN RemoveAll_SkipMissing(s, Tail(removed))
    ELSE RemoveAll_SkipMissing(ListRemove(s, Head(removed)), Tail(removed))

\* s.remove(removed[0]) only: the loop left after its first iteration
RemoveAll_FirstOnly(s, removed) ==
    IF removed = << >> THEN [raised |-> FALSE, labels |-> s]
    ELSE IF ~Contains(s, Head(removed)) THEN [raised |-> TRUE, labels |-> s]
    ELSE [raised |-> FALSE, labels |-> ListRemove(s, Head(removed))]

\* for r in removed: s.remove(r), stopping at the first ValueError
RECURSIVE RemoveAll(_, _)
RemoveAll(s, removed) ==
    IF removed = << >> THEN [raised |-> FALSE, labels |-> s]
    ELSE IF ~Contains(s, Head(removed)) THEN [raised |-> TRUE, labels |-> s]
    ELSE RemoveAll(ListRemove(s, Head(removed)), Tail(removed))

\* set(s)
Range(s) == {s[i] : i \in 1..Len(s)}

\* [f[x] for x in s]
MapSeq(f, s) == [i \in 1..Len(s) |-> f[s[i]]]

----------------------------------------------------------------------------
(* update_state *)

Returned(s) == [raised |-> "none", state |-> s]

\* a ValueError swallowed: the state is returned as it was
Raised_AssertionOnly(exc, s) ==
    [raised |-> IF exc = "ValueError" THEN "none" ELSE exc, state |-> s]

\* the final else branch without its assert: the state is returned as it was
Raised_ValueErrorOnly(exc, s) ==
    [raised |-> IF exc = "AssertionError" THEN "none" ELSE exc, state |-> s]

Raised(exc, s) == [raised |-> exc, state |-> s]

\* update_state without the cancelling of names that are both added and removed
update_state_NoCancel(current, ev) ==
    IF ev.change = "MarkedDraft"
    THEN Returned(PRState(current.labels, current.ci, TRUE))
    ELSE IF ev.change = "MarkedReady"
    THEN Returned(PRState(current.labels, current.ci, FALSE))
    ELSE IF ev.change = "CIStatusChanged"
    THEN Returned(PRState(current.labels, ev.extra.new_state, current.draft))
    ELSE IF ev.change = "LabelAdded"
    THEN LET lname == ev.extra.name IN
         IF lname \in DOMAIN label_categorisation_rules
         THEN Returned(PRState(
                  Append(current.labels, label_categorisation_rules[lname]),
                  current.ci, current.draft))
         ELSE Returned(current)
    ELSE IF ev.change = "LabelRemoved"
    THEN LET lname == ev.extra.name IN
         IF lname \in DOMAIN label_categorisation_rules
         THEN IF Contains(current.labels, label_categorisation_rules[lname])
              THEN Returned(PRState(
                       ListRemove(current.labels,
                                  label_categorisation_rules[lname]),
                       current.ci, current.draft))
              ELSE Raised("ValueError", current)
         ELSE Returned(current)
    ELSE IF ev.change = "LabelAddedRemoved"
    THEN LET both == {}
             keep == DOMAIN label_categorisation_rules \ both
             added == SelectSeqIn(ev.extra.added, keep)
             removed == SelectSeqIn(ev.extra.removed, keep)
             new_labels == RemoveAll(current.labels,
                               MapSeq(label_categorisation_rules, removed))
         IN  IF new_labels.raised
             THEN Raised("ValueError", current)
             ELSE Returned(PRState(
                      new_labels.labels
                          \o MapSeq(label_categorisation_rules, added),
                      current.ci, current.draft))
    ELSE Raised("AssertionError", current)

\* update_state raising for the removal of a name without a kind
update_state_StrictNames(current, ev) ==
    IF ev.change = "MarkedDraft"
    THEN Returned(PRState(current.labels, current.ci, TRUE))
    ELSE IF ev.change = "MarkedReady"
    THEN Returned(PRState(current.labels, current.ci, FALSE))
    ELSE IF ev.change = "CIStatusChanged"
    THEN Returned(PRState(current.labels, ev.extra.new_state, current.draft))
    ELSE IF ev.change = "LabelAdded"
    THEN LET lname == ev.extra.name IN
         IF lname \in DOMAIN label_categorisation_rules
         THEN Returned(PRState(
                  Append(current.labels, label_categorisation_rules[lname]),
                  current.ci, current.draft))
         ELSE Returned(current)
    ELSE IF ev.change = "LabelRemoved"
    THEN LET lname == ev.extra.name IN
         IF lname \in DOMAIN label_categorisation_rules
         THEN IF Contains(current.labels, label_categorisation_rules[lname])
              THEN Returned(PRState(
                       ListRemove(current.labels,
                                  label_categorisation_rules[lname]),
                       current.ci, current.draft))
              ELSE Raised("ValueError", current)
         ELSE Raised("ValueError", current)
    ELSE IF ev.change = "LabelAddedRemoved"
    THEN LET both == Range(ev.extra.added) \cap Range(ev.extra.removed)
             keep == DOMAIN label_categorisation_rules \ both
             added == SelectSeqIn(ev.extra.added, keep)
             removed == SelectSeqIn(ev.extra.removed, keep)
             new_labels == RemoveAll(current.labels,
                               MapSeq(label_categorisation_rules, removed))
         IN  IF new_labels.raised
             THEN Raised("ValueError", current)
             ELSE Returned(PRState(
                      new_labels.labels
                          \o MapSeq(label_categorisation_rules, added),
                      current.ci, current.draft))
    ELSE Raised("AssertionError", current)

\* update_state with MarkedDraft flipping the draft flag
update_state_ToggleDraft(current, ev) ==
    IF ev.change = "MarkedDraft"
    THEN Returned(PRState(current.labels, current.ci, ~current.draft))
    ELSE IF ev.change = "MarkedReady"
    THEN Returned(PRState(current.labels, current.ci, FALSE))
    ELSE IF ev.change = "CIStatusChanged"
    THEN Returned(PRState(current.labels, ev.extra.new_state, current.draft))
    ELSE IF ev.change = "LabelAdded"
    THEN LET lname == ev.extra.name IN
         IF lname \in DOMAIN label_categorisation_rules
         THEN Returned(PRState(
                  Append(current.labels, label_categorisation_rules[lname]),
                  current.ci, current.draft))
         ELSE Returned(current)
    ELSE IF ev.change = "LabelRemoved"
    THEN LET lname == ev.extra.name IN
         IF lname \in DOMAIN label_categorisation_rules
         THEN IF Contains(current.labels, label_categorisation_rules[lname])
              THEN Returned(PRState(
                       ListRemove(current.labels,
                                  label_categorisation_rules[lname]),
                       current.ci, current.draft))
              ELSE Raised("ValueError", current)
         ELSE Returned(current)
    ELSE IF ev.change = "LabelAddedRemoved"
    THEN LET both == Range(ev.extra.added) \cap Range(ev.extra.removed)
             keep == DOMAIN label_categorisation_rules \ both
             added == SelectSeqIn(ev.extra.added, keep)
             removed == SelectSeqIn(ev.extra.removed, keep)
             new_labels == RemoveAll(current.labels,
                               MapSeq(label_categorisation_rules, removed))
         IN  IF new_labels.raised
             THEN Raised("ValueError", current)
             ELSE Returned(PRState(
                      new_labels.labels
                          \o MapSeq(label_categorisation_rules, added),
                      current.ci, current.draft))
    ELSE Raised("AssertionError", current)

\* update_state with a CI change marking the PR ready
update_state_CIUndrafts(current, ev) ==
    IF ev.change = "MarkedDraft"
    THEN Returned(PRState(current.labels, current.ci, TRUE))
    ELSE IF ev.change = "MarkedReady"
    THEN Returned(PRState(current.labels, current.ci, FALSE))
    ELSE IF ev.change = "CIStatusChanged"
    THEN Returned(PRState(current.labels, ev.extra.new_state, FALSE))
    ELSE IF ev.change = "LabelAdded"
    THEN LET lname == ev.extra.name IN
         IF lname \in DOMAIN label_categorisation_rules
         THEN Returned(PRState(
                  Append(current.labels, label_categorisation_rules[lname]),
                  current.ci, current.draft))
         ELSE Returned(current)
    ELSE IF ev.change = "LabelRemoved"
    THEN LET lname == ev.extra.name IN
         IF lname \in DOMAIN label_categorisation_rules
         THEN IF Contains(current.labels, label_categorisation_rules[lname])
              THEN Returned(PRState(
                       ListRemove(current.labels,
                                  label_categorisation_rules[lname]),
                       current.ci, current.draft))
              ELSE Raised("ValueError", current)
         ELSE Returned(current)
    ELSE IF ev.change = "LabelAddedRemoved"
    THEN LET both == Range(ev.extra.added) \cap Range(ev.extra.removed)
             keep == DOMAIN label_categorisation_rules \ both
             added == SelectSeqIn(ev.extra.added, keep)
             removed == SelectSeqIn(ev.extra.removed, keep)
             new_labels == RemoveAll(current.labels,
                               MapSeq(label_categorisation_rules, removed))
         IN  IF new_labels.raised
             THEN Raised("ValueError", current)
             ELSE Returned(PRState(
                      new_labels.labels
                          \o MapSeq(label_categorisation_rules, added),
                      current.ci, current.draft))
    ELSE Raised("AssertionError", current)

update_state(current, ev) ==
    IF ev.change = "MarkedDraft"
    THEN Returned(PRState(current.labels, current.ci, TRUE))
    ELSE IF ev.change = "MarkedReady"
    THEN Returned(PRState(current.labels, current.ci, FALSE))
    ELSE IF ev.change = "CIStatusChanged"
    THEN Returned(PRState(current.labels, ev.extra.new_state, current.draft))
    ELSE IF ev.change = "LabelAdded"
    THEN LET lname == ev.extra.name IN
         IF lname \in DOMAIN label_categorisation_rules
         THEN Returned(PRState(
                  Append(current.labels, label_categorisation_rules[lname]),
                  current.ci, current.draft))
         ELSE Returned(current)
    ELSE IF ev.change = "LabelRemoved"
    THEN LET lname == ev.extra.name IN
         IF lname \in DOMAIN label_categorisation_rules
         THEN IF Contains(current.labels, label_categorisation_rules[lname])
              THEN Returned(PRState(
                       ListRemove(current.labels,
                                  label_categorisation_rules[lname]),
                       current.ci, current.draft))
              ELSE Raised("ValueError", current)
         ELSE Returned(current)
    ELSE IF ev.change = "LabelAddedRemoved"
    THEN LET both == Range(ev.extra.added) \cap Range(ev.extra.removed)
             keep == DOMAIN label_categorisation_rules \ both
             added == SelectSeqIn(ev.extra.added, keep)
             removed == SelectSeqIn(ev.extra.removed, keep)
             new_labels == RemoveAll(current.labels,
                               MapSeq(label_categorisation_rules, removed))
         IN  IF new_labels.raised
             THEN Raised("ValueError", current)
             ELSE Returned(PRState(
                      new_labels.labels
                          \o MapSeq(label_categorisation_rules, added),
                      current.ci, current.draft))
    ELSE Raised("AssertionError", current)

----------------------------------------------------------------------------
(* update_state, seen at the level of Python's list objects: h is the heap   *)
(* of list objects, r the object that current.labels refers to.  A PRState   *)
(* built from current.labels shares that object with current.               *)

\* new_labels = current.labels without a copy: the same object
ListCopy_Alias(h, r) == [heap |-> h, ref |-> r]

\* new_labels = current.labels[:]: a new object with the same items
ListCopy(h, r) == [heap |-> Append(h, h[r]), ref |-> Len(h) + 1]

\* a new list object holding items
ListNew(h, items) == [heap |-> Append(h, items), ref |-> Len(h) + 1]

\* the heap after update_state(current, ev), and the list object that the
\* labels of the returned state refer to
update_labels(h, r, ev) ==
    IF ev.change \in {"MarkedDraft", "MarkedReady", "CIStatusChanged"}
    THEN [heap |-> h, ref |-> r]
    ELSE IF ev.change = "LabelAdded"
    THEN IF ev.extra.name \in DOMAIN label_categorisation_rules
         THEN ListNew(h, Append(h[r], label_categorisation_rules[ev.extra.name]))
         ELSE [heap |-> h, ref |-> r]
    ELSE IF ev.change = "LabelRemoved"
    THEN IF ev.extra.name \in DOMAIN label_categorisation_rules
         THEN LET new_labels == ListCopy(h, r)
                  kind == label_categorisation_rules[ev.extra.name]
              IN  IF Contains(new_labels.heap[new_labels.ref], kind)
                  THEN [heap |-> [new_labels.heap EXCEPT
                                     ![new_labels.ref] = ListRemove(@, kind)],
                        ref |-> new_labels.ref]
                  ELSE new_labels
         ELSE [heap |-> h, ref |-> r]
    ELSE IF ev.change = "LabelAddedRemoved"
    THEN LET both == Range(ev.extra.added) \cap Range(ev.extra.removed)
             keep == DOMAIN label_categorisation_rules \ both
             added == SelectSeqIn(ev.extra.added, keep)
             removed == SelectSeqIn(ev.extra.removed, keep)
             new_labels == ListCopy(h, r)
             after == RemoveAll(new_labels.heap[new_labels.ref],
                                MapSeq(label_categorisation_rules, removed))
             h2 == [new_labels.heap EXCEPT ![new_labels.ref] = after.labels]
         IN  IF after.raised
             THEN [heap |-> h2, ref |-> new_labels.ref]
             ELSE ListNew(h2, after.labels
                                  \o MapSeq(label_categorisation_rules, added))
    ELSE [heap |-> h, ref |-> r]

----------------------------------------------------------------------------
(* determine_PR_status *)

\* the key table with Delegated given the value of Author and Review
key_DelegatedTied(k) ==
    CASE k = "Blocked" -> 10
      [] k = "WIP" -> 9
      [] k = "MergeConflict" -> 8
      [] k = "Bors" -> 7
      [] k = "Decision" -> 6
      [] k = "Author" -> 5
      [] k = "Review" -> 5
      [] k = "Delegated" -> 5

key(k) ==
    CASE k = "Blocked" -> 10
      [] k = "WIP" -> 9
      [] k = "MergeConflict" -> 8
      [] k = "Bors" -> 7
      [] k = "Decision" -> 6
      [] k = "Author" -> 5
      [] k = "Review" -> 5
      [] k = "Delegated" -> 4

\* sorted(labels, key=lambda k: key[k], reverse=True): a stable sort, so labels
\* of equal key keep their order
RECURSIVE sorted(_)
sorted(labels) ==
    IF labels = << >> THEN << >>
    ELSE LET i == CHOOSE j \in 1..Len(labels) :
                      /\ \A k \in 1..Len(labels) : key(labels[k]) <= key(labels[j])
                      /\ \A k \in 1..(j - 1) : key(labels[k]) < key(labels[j])
         IN  << labels[i] >>
                 \o sorted(SubSeq(labels, 1, i - 1)
                               \o SubSeq(labels, i + 1, Len(labels)))

\* determine_PR_status without the check of Bors against Blocked
determine_PR_status_NoBorsBlocked(d, s) ==
    IF s.draft \/ s.ci = "Fail" THEN "NotReady"
    ELSE LET labels == SelectSeqIn(s.labels, LabelKind \ {"Other"}) IN
         IF labels = << >>
         THEN IF d > Cutover THEN "AwaitingReview" ELSE "AwaitingAuthor"
         ELSE IF Len(labels) = 1 THEN label_to_prstatus(labels[1])
         ELSE IF /\ Contains(labels, "Decision")
                 /\ SelectSeqIn(labels, {"Author", "Review", "Delegated",
                                         "Bors", "WIP"}) # << >>
              THEN "Contradictory"
         ELSE IF /\ Contains(labels, "WIP")
                 /\ SelectSeqIn(labels, {"Review", "Bors"}) # << >>
              THEN "Contradictory"
         ELSE IF Contains(labels, "Author") /\ Contains(labels, "Review")
              THEN "Contradictory"
         ELSE label_to_prstatus(sorted(labels)[1])

\* determine_PR_status without the check of Author against Review
determine_PR_status_NoAuthorReview(d, s) ==
    IF s.draft \/ s.ci = "Fail" THEN "NotReady"
    ELSE LET labels == SelectSeqIn(s.labels, LabelKind \ {"Other"}) IN
         IF labels = << >>
         THEN IF d > Cutover THEN "AwaitingReview" ELSE "AwaitingAuthor"
         ELSE IF Len(labels) = 1 THEN label_to_prstatus(labels[1])
         ELSE IF /\ Contains(labels, "Decision")
                 /\ SelectSeqIn(labels, {"Author", "Review", "Delegated",
                                         "Bors", "WIP"}) # << >>
              THEN "Contradictory"
         ELSE IF /\ Contains(labels, "WIP")
                 /\ SelectSeqIn(labels, {"Review", "Bors"}) # << >>
              THEN "Contradictory"
         ELSE IF Contains(labels, "Bors") /\ Contains(labels, "Blocked")
              THEN "Contradictory"
         ELSE label_to_prstatus(sorted(labels)[1])

\* determine_PR_status with the cutover compared by >= instead of >
determine_PR_status_CutoverInclusive(d, s) ==
    IF s.draft \/ s.ci = "Fail" THEN "NotReady"
    ELSE LET labels == SelectSeqIn(s.labels, LabelKind \ {"Other"}) IN
         IF labels = << >>
         THEN IF d >= Cutover THEN "AwaitingReview" ELSE "AwaitingAuthor"
         ELSE IF Len(labels) = 1 THEN label_to_prstatus(labels[1])
         ELSE IF /\ Contains(labels, "Decision")
                 /\ SelectSeqIn(labels, {"Author", "Review", "Delegated",
                                         "Bors", "WIP"}) # << >>
              THEN "Contradictory"
         ELSE IF /\ Contains(labels, "WIP")
                 /\ SelectSeqIn(labels, {"Review", "Bors"}) # << >>
              THEN "Contradictory"
         ELSE IF Contains(labels, "Author") /\ Contains(labels, "Review")
              THEN "Contradictory"
         ELSE IF Contains(labels, "Bors") /\ Contains(labels, "Blocked")
              THEN "Contradictory"
         ELSE label_to_prstatus(sorted(labels)[1])

\* determine_PR_status with the CI check placed after the single-label case
determine_PR_status_LateFailCheck(d, s) ==
    IF s.draft THEN "NotReady"
    ELSE LET labels == SelectSeqIn(s.labels, LabelKind \ {"Other"}) IN
         IF labels = << >>
         THEN IF d > Cutover THEN "AwaitingReview" ELSE "AwaitingAuthor"
         ELSE IF Len(labels) = 1 THEN label_to_prstatus(labels[1])
         ELSE IF s.ci = "Fail" THEN "NotReady"
         ELSE IF /\ Contains(labels, "Decision")
                 /\ SelectSeqIn(labels, {"Author", "Review", "Delegated",
                                         "Bors", "WIP"}) # << >>
              THEN "Contradictory"
         ELSE IF /\ Contains(labels, "WIP")
                 /\ SelectSeqIn(labels, {"Review", "Bors"}) # << >>
              THEN "Contradictory"
         ELSE IF Contains(labels, "Author") /\ Contains(labels, "Review")
              THEN "Contradictory"
         ELSE IF Contains(labels, "Bors") /\ Contains(labels, "Blocked")
              THEN "Contradictory"
         ELSE label_to_prstatus(sorted(labels)[1])

\* determine_PR_status with a Blocked label deciding before the contradictions
determine_PR_status_BlockedFirst(d, s) ==
    IF s.draft \/ s.ci = "Fail" THEN "NotReady"
    ELSE LET labels == SelectSeqIn(s.labels, LabelKind \ {"Other"}) IN
         IF labels = << >>
         THEN IF d > Cutover THEN "AwaitingReview" ELSE "AwaitingAuthor"
         ELSE IF Len(labels) = 1 THEN label_to_prstatus(labels[1])
         ELSE IF Contains(labels, "Blocked") /\ ~Contains(labels, "Bors")
              THEN "Blocked"
         ELSE IF /\ Contains(labels, "Decision")
                 /\ SelectSeqIn(labels, {"Author", "Review", "Delegated",
                                         "Bors", "WIP"}) # << >>
              THEN "Contradictory"
         ELSE IF /\ Contains(labels, "WIP")
                 /\ SelectSeqIn(labels, {"Review", "Bors"}) # << >>
              THEN "Contradictory"
         ELSE IF Contains(labels, "Author") /\ Contains(labels, "Review")
              THEN "Contradictory"
         ELSE IF Contains(labels, "Bors") /\ Contains(labels, "Blocked")
              THEN "Contradictory"
         ELSE label_to_prstatus(sorted(labels)[1])

\* determine_PR_status taking every ci other than Pass as not ready
determine_PR_status_PassOnly(d, s) ==
    IF s.draft \/ s.ci # "Pass" THEN "NotReady"
    ELSE LET labels == SelectSeqIn(s.labels, LabelKind \ {"Other"}) IN
         IF labels = << >>
         THEN IF d > Cutover THEN "AwaitingReview" ELSE "AwaitingAuthor"
         ELSE IF Len(labels) = 1 THEN label_to_prstatus(labels[1])
         ELSE IF /\ Contains(labels, "Decision")
                 /\ SelectSeqIn(labels, {"Author", "Review", "Delegated",
                                         "Bors", "WIP"}) # << >>
              THEN "Contradictory"
         ELSE IF /\ Contains(labels, "WIP")
                 /\ SelectSeqIn(labels, {"Review", "Bors"}) # << >>
              THEN "Contradictory"
         ELSE IF Contains(labels, "Author") /\ Contains(labels, "Review")
              THEN "Contradictory"
         ELSE IF Contains(labels, "Bors") /\ Contains(labels, "Blocked")
              THEN "Contradictory"
         ELSE label_to_prstatus(sorted(labels)[1])

\* determine_PR_status falling back to the label-free default when several
\* labels are held without a contradiction
determine_PR_status_ManyAsDefault(d, s) ==
    IF s.draft \/ s.ci = "Fail" THEN "NotReady"
    ELSE LET labels == SelectSeqIn(s.labels, LabelKind \ {"Other"}) IN
         IF labels = << >>
         THEN IF d > Cutover THEN "AwaitingReview" ELSE "AwaitingAuthor"
         ELSE IF Len(labels) = 1 THEN label_to_prstatus(labels[1])
         ELSE IF /\ Contains(labels, "Decision")
                 /\ SelectSeqIn(labels, {"Author", "Review", "Delegated",
                                         "Bors", "WIP"}) # << >>
              THEN "Contradictory"
         ELSE IF /\ Contains(labels, "WIP")
                 /\ SelectSeqIn(labels, {"Review", "Bors"}) # << >>
              THEN "Contradictory"
         ELSE IF Contains(labels, "Author") /\ Contains(labels, "Review")
              THEN "Contradictory"
         ELSE IF Contains(labels, "Bors") /\ Contains(labels, "Blocked")
              THEN "Contradictory"
         ELSE IF d > Cutover THEN "AwaitingReview" ELSE "AwaitingAuthor"

\* determine_PR_status taking the default after the cutover only for a state
\* without any label, Other labels included
determine_PR_status_OtherAsAuthor(d, s) ==
    IF s.draft \/ s.ci = "Fail" THEN "NotReady"
    ELSE LET labels == SelectSeqIn(s.labels, LabelKind \ {"Other"}) IN
         IF labels = << >>
         THEN IF d > Cutover /\ s.labels = << >>
              THEN "AwaitingReview" ELSE "AwaitingAuthor"
         ELSE IF Len(labels) = 1 THEN label_to_prstatus(labels[1])
         ELSE IF /\ Contains(labels, "Decision")
                 /\ SelectSeqIn(labels, {"Author", "Review", "Delegated",
                                         "Bors", "WIP"}) # << >>
              THEN "Contradictory"
         ELSE IF /\ Contains(labels, "WIP")
                 /\ SelectSeqIn(labels, {"Review", "Bors"}) # << >>
              THEN "Contradictory"
         ELSE IF Contains(labels, "Author") /\ Contains(labels, "Review")
              THEN "Contradictory"
         ELSE IF Contains(labels, "Bors") /\ Contains(labels, "Blocked")
              THEN "Contradictory"
         ELSE label_to_prstatus(sorted(labels)[1])

\* determine_PR_status reading the draft flag of label-free states only
determine_PR_status_LabelsOverDraft(d, s) ==
    IF s.ci = "Fail" THEN "NotReady"
    ELSE LET labels == SelectSeqIn(s.labels, LabelKind \ {"Other"}) IN
         IF labels = << >>
         THEN IF s.draft THEN "NotReady"
              ELSE IF d > Cutover THEN "AwaitingReview" ELSE "AwaitingAuthor"
         ELSE IF Len(labels) = 1 THEN label_to_prstatus(labels[1])
         ELSE IF /\ Contains(labels, "Decision")
                 /\ SelectSeqIn(labels, {"Author", "Review", "Delegated",
                                         "Bors", "WIP"}) # << >>
              THEN "Contradictory"
         ELSE IF /\ Contains(labels, "WIP")
                 /\ SelectSeqIn(labels, {"Review", "Bors"}) # << >>
              THEN "Contradictory"
         ELSE IF Contains(labels, "Author") /\ Contains(labels, "Review")
              THEN "Contradictory"
         ELSE IF Contains(labels, "Bors") /\ Contains(labels, "Blocked")
              THEN "Contradictory"
         ELSE label_to_prstatus(sorted(labels)[1])

determine_PR_status(d, s) ==
    IF s.draft \/ s.ci = "Fail" THEN "NotReady"
    ELSE LET labels == SelectSeqIn(s.labels, LabelKind \ {"Other"}) IN
         IF labels = << >>
         THEN IF d > Cutover THEN "AwaitingReview" ELSE "AwaitingAuthor"
         ELSE IF Len(labels) = 1 THEN label_to_prstatus(labels[1])
         ELSE IF /\ Contains(labels, "Decision")
                 /\ SelectSeqIn(labels, {"Author", "Review", "Delegated",
                                         "Bors", "WIP"}) # << >>
              THEN "Contradictory"
         ELSE IF /\ Contains(labels, "WIP")
                 /\ SelectSeqIn(labels, {"Review", "Bors"}) # << >>
              THEN "Contradictory"
         ELSE IF Contains(labels, "Author") /\ Contains(labels, "Review")
              THEN "Contradictory"
         ELSE IF Contains(labels, "Bors") /\ Contains(labels, "Blocked")
              THEN "Contradictory"
         ELSE label_to_prstatus(sorted(labels)[1])

----------------------------------------------------------------------------
(* determine_PR_status of classify_pr_state.py: the same function with its   *)
(* own key table                                                             *)

classify_key(k) ==
    CASE k = "Blocked" -> 10
      [] k = "WIP" -> 9
      [] k = "Decision" -> 8
      [] k = "MergeConflict" -> 7
      [] k = "Bors" -> 6
      [] k = "Author" -> 5
      [] k = "Review" -> 5
      [] k = "Delegated" -> 4

RECURSIVE classify_sorted(_)
classify_sorted(labels) ==
    IF labels = << >> THEN << >>
    ELSE LET i == CHOOSE j \in 1..Len(labels) :
                      /\ \A k \in 1..Len(labels) :
                             classify_key(labels[k]) <= classify_key(labels[j])
                      /\ \A k \in 1..(j - 1) :
                             classify_key(labels[k]) < classify_key(labels[j])
         IN  << labels[i] >>
                 \o classify_sorted(SubSeq(labels, 1, i - 1)
                                        \o SubSeq(labels, i + 1, Len(labels)))

classify_determine_PR_status(d, s) ==
    IF s.draft \/ s.ci = "Fail" THEN "NotReady"
    ELSE LET labels == SelectSeqIn(s.labels, LabelKind \ {"Other"}) IN
         IF labels = << >>
         THEN IF d > Cutover THEN "AwaitingReview" ELSE "AwaitingAuthor"
         ELSE IF Len(labels) = 1 THEN label_to_prstatus(labels[1])
         ELSE IF /\ Contains(labels, "Decision")
                 /\ SelectSeqIn(labels, {"Author", "Review", "Delegated",
                                         "Bors", "WIP"}) # << >>
              THEN "Contradictory"
         ELSE IF /\ Contains(labels, "WIP")
                 /\ SelectSeqIn(labels, {"Review", "Bors"}) # << >>
              THEN "Contradictory"
         ELSE IF Contains(labels, "Author") /\ Contains(labels, "Review")
              THEN "Contradictory"
         ELSE IF Contains(labels, "Bors") /\ Contains(labels, "Blocked")
              THEN "Contradictory"
         ELSE label_to_prstatus(classify_sorted(labels)[1])

----------------------------------------------------------------------------
(* determine_status_changes, total_time_in_status, last_status_update *)

\* determine_status_changes keeping only the entries whose status differs from
\* the status of the entry before
determine_status_changes_ChangesOnly(evolution) ==
    LET all == [i \in 1..Len(evolution) |->
                   [time |-> evolution[i].time,
                    status |-> determine_PR_status(evolution[i].time,
                                                   evolution[i].state)]]
        keep == {i \in 1..Len(all) : i = 1 \/ all[i].status # all[i - 1].status}
        pos(n) == CHOOSE i \in keep : Cardinality({j \in keep : j <= i}) = n
    IN  [n \in 1..Cardinality(keep) |-> all[pos(n)]]

determine_status_changes(evolution) ==
    [i \in 1..Len(evolution) |->
        [time |-> evolution[i].time,
         status |-> determine_PR_status(evolution[i].time, evolution[i].state)]]

\* the loop of total_time_in_status testing new_status instead of old_status
RECURSIVE total_loop_NewStatus(_, _, _, _)
total_loop_NewStatus(evo, st, i, acc) ==
    IF i > Len(evo) - 1 THEN acc
    ELSE total_loop_NewStatus(evo, st, i + 1,
             IF evo[i + 1].status = st
             THEN acc + (evo[i + 1].time - evo[i].time)
             ELSE acc)

\* the loop of total_time_in_status from index i on, acc being the sum so far
\* the loop of total_time_in_status measuring every interval from the creation
RECURSIVE total_loop_FromCreation(_, _, _, _)
total_loop_FromCreation(evo, st, i, acc) ==
    IF i > Len(evo) - 1 THEN acc
    ELSE total_loop_FromCreation(evo, st, i + 1,
             IF evo[i].status = st
             THEN acc + (evo[i + 1].time - evo[1].time)
             ELSE acc)

RECURSIVE total_loop(_, _, _, _)
total_loop(evo, st, i, acc) ==
    IF i > Len(evo) - 1 THEN acc
    ELSE total_loop(evo, st, i + 1,
             IF evo[i].status = st
             THEN acc + (evo[i + 1].time - evo[i].time)
             ELSE acc)

\* total_time_in_status without the interval from the last entry to now
total_time_in_status_NoTail(evo, n, st) == total_loop(evo, st, 1, 0)

total_time_in_status(evo, n, st) ==
    LET acc == total_loop(evo, st, 1, 0)
        last_entry == evo[Len(evo)]
    IN  IF last_entry.status = st THEN acc + (n - last_entry.time) ELSE acc

\* the queue time taken as the time spent awaiting the author
total_queue_time_Author(evo, n) == total_time_in_status(evo, n, "AwaitingAuthor")

total_queue_time(evo, n) == total_time_in_status(evo, n, "AwaitingReview")

\* last_status_update reading the first entry instead of the last
last_status_update_FirstEntry(evo, n) == n - evo[1].time

last_status_update(evo, n) == n - evo[Len(evo)].time

----------------------------------------------------------------------------
(* Events *)

Event(t, change, extra) == [time |-> t, change |-> change, extra |-> extra]

add_label(t, name) == Event(t, "LabelAdded", [name |-> name])
remove_label(t, name) == Event(t, "LabelRemoved", [name |-> name])
add_remove_labels(t, added, removed) ==
    Event(t, "LabelAddedRemoved", [added |-> added, removed |-> removed])
draft(t) == Event(t, "MarkedDraft", << >>)
undraft(t) == Event(t, "MarkedReady", << >>)
update_ci_status(t, new) == Event(t, "CIStatusChanged", [new_state |-> new])

\* label names the timeline's events carry: two names of one kind, a name of
\* another kind and an unmapped name
EventNames == {"blocked-by-other-PR", "blocked-by-core-PR", "WIP", "t-data"}

\* lists of a LabelAddedRemoved event of the timeline
EventLists == {<< >>, << "WIP" >>}

\* label names of the events handed to update_state: one name of every kind,
\* a second name of one kind and an unmapped name
UpdateNames ==
    {"WIP", "awaiting-review-DONT-USE", "awaiting-author", "blocked-by-other-PR",
     "blocked-by-core-PR", "merge-conflict", "awaiting-zulip", "delegated",
     "ready-to-merge", "easy"}

UpdateLists ==
    {<< >>, << "WIP" >>, << "easy" >>, << "awaiting-author" >>,
     << "WIP", "awaiting-zulip" >>, << "awaiting-zulip", "WIP" >>}

UpdateEvents ==
    {draft(0), undraft(0)}
        \cup {update_ci_status(0, c) : c \in CIStatus}
        \cup {add_label(0, n) : n \in UpdateNames}
        \cup {remove_label(0, n) : n \in UpdateNames}
        \cup {add_remove_labels(0, a, r) : a \in UpdateLists, r \in UpdateLists}
        \cup {Event(0, "Closed", << >>)}

----------------------------------------------------------------------------
(* determine_state_changes: one iteration of its loop *)

\* a PR taken to be created in draft mode
InitialState_Draft == PRState(<< >>, "Pass", TRUE)

InitialState == PRState(<< >>, "Pass", FALSE)

\* the loop body skipping an event equal to the event before it
Step_SkipRepeated(ev) ==
    /\ pc = "fold"
    /\ events' = Append(events, ev)
    /\ LET new_state == update_state(curr_state, ev)
           obj == update_labels(heap, refs[Len(refs)], ev)
       IN  IF events # << >> /\ events[Len(events)] = ev
           THEN UNCHANGED << pc, result, curr_state, heap, refs >>
           ELSE IF new_state.raised = "none"
           THEN /\ heap' = obj.heap
                /\ refs' = Append(refs, obj.ref)
                /\ curr_state' = [new_state.state EXCEPT !.labels = obj.heap[obj.ref]]
                /\ result' =
                       Append([i \in 1..Len(result) |->
                                  [result[i] EXCEPT
                                      !.state.labels = obj.heap[refs[i]]]],
                              [time |-> ev.time, state |-> curr_state'])
                /\ pc' = "fold"
           ELSE /\ pc' = new_state.raised
                /\ UNCHANGED << result, curr_state, heap, refs >>
    /\ UNCHANGED << creation_time, now, evolution_status, total, last,
                    date, state, status >>

\* The entries of result hold references to list objects: an entry reads as
\* the items its object holds after the step.
Step(ev) ==
    /\ pc = "fold"
    /\ events' = Append(events, ev)
    /\ LET new_state == update_state(curr_state, ev)
           obj == update_labels(heap, refs[Len(refs)], ev)
       IN  IF new_state.raised = "none"
           THEN /\ heap' = obj.heap
                /\ refs' = Append(refs, obj.ref)
                /\ curr_state' = [new_state.state EXCEPT !.labels = obj.heap[obj.ref]]
                /\ result' =
                       Append([i \in 1..Len(result) |->
                                  [result[i] EXCEPT
                                      !.state.labels = obj.heap[refs[i]]]],
                              [time |-> ev.time, state |-> curr_state'])
                /\ pc' = "fold"
           ELSE /\ pc' = new_state.raised
                /\ UNCHANGED << result, curr_state, heap, refs >>
    /\ UNCHANGED << creation_time, now, evolution_status, total, last,
                    date, state, status >>

MarkedDraft ==
    \E t \in Times : Len(events) < MaxEvents /\ Step(draft(t))

MarkedReady ==
    \E t \in Times : Len(events) < MaxEvents /\ Step(undraft(t))

CIStatusChanged ==
    \E t \in Times, c \in CIStatus :
        Len(events) < MaxEvents /\ Step(update_ci_status(t, c))

LabelAdded ==
    \E t \in Times, n \in EventNames :
        Len(events) < MaxEvents /\ Step(add_label(t, n))

LabelRemoved ==
    \E t \in Times, n \in EventNames :
        Len(events) < MaxEvents /\ Step(remove_label(t, n))

LabelAddedRemoved ==
    \E t \in Times, a \in EventLists, r \in EventLists :
        Len(events) < MaxEvents /\ Step(add_remove_labels(t, a, r))

\* an event whose change is no PRChange variant
UnhandledVariant ==
    \E t \in Times : Len(events) < MaxEvents /\ Step(Event(t, "Closed", << >>))

\* total_time_in_status for every status, and last_status_update, called with
\* the events consumed so far
AggregateAt(n) ==
    /\ pc = "fold"
    /\ now' = n
    /\ evolution_status' = determine_status_changes(result)
    /\ IF Len(evolution_status') = Len(events) + 1
       THEN /\ total' = [st \in PRStatus |->
                            total_time_in_status(evolution_status', now', st)]
            /\ last' = last_status_update(evolution_status', now')
            /\ pc' = "done"
       ELSE /\ pc' = "LengthAssertionError"
            /\ UNCHANGED << total, last >>
    /\ UNCHANGED << creation_time, events, result, curr_state, heap, refs,
                    date, state, status >>

Aggregate == \E n \in Times : AggregateAt(n)

Init ==
    /\ pc = "fold"
    /\ creation_time \in Times
    /\ events = << >>
    /\ curr_state = InitialState
    /\ result = << [time |-> creation_time, state |-> curr_state] >>
    /\ heap = << curr_state.labels >>
    /\ refs = << 1 >>
    /\ now = 0
    /\ evolution_status = << >>
    /\ total = [st \in PRStatus |-> 0]
    /\ last = 0
    /\ date = 0
    /\ state = InitialState
    /\ status = "Closed"

Next ==
    \/ MarkedDraft
    \/ MarkedReady
    \/ CIStatusChanged
    \/ LabelAdded
    \/ LabelRemoved
    \/ LabelAddedRemoved
    \/ UnhandledVariant
    \/ Aggregate

Spec == Init /\ [][Next]_vars

----------------------------------------------------------------------------
(* update_state as a pure function: a state a PR can be in, and the events  *)
(* applied to it                                                            *)

RECURSIVE SeqsUpTo(_, _)
SeqsUpTo(S, n) ==
    IF n = 0 THEN {<< >>}
    ELSE LET shorter == SeqsUpTo(S, n - 1)
         IN  shorter \cup {Append(s, x) : s \in shorter, x \in S}

\* update_state appends kinds of label_categorisation_rules only
HeldKinds == {label_categorisation_rules[n] : n \in DOMAIN label_categorisation_rules}

ApplyUpdateState ==
    \E ev \in UpdateEvents : Len(events) < MaxSteps /\ Step(ev)

InitUpdate ==
    /\ pc = "fold"
    /\ creation_time = 0
    /\ events = << >>
    /\ curr_state \in {PRState(l, c, d) :
                          l \in SeqsUpTo(HeldKinds, MaxHeld),
                          c \in CIStatus, d \in BOOLEAN}
    /\ result = << [time |-> creation_time, state |-> curr_state] >>
    /\ heap = << curr_state.labels >>
    /\ refs = << 1 >>
    /\ now = 0
    /\ evolution_status = << >>
    /\ total = [st \in PRStatus |-> 0]
    /\ last = 0
    /\ date = 0
    /\ state = InitialState
    /\ status = "Closed"

NextUpdate == ApplyUpdateState

SpecUpdate == InitUpdate /\ [][NextUpdate]_vars

----------------------------------------------------------------------------
(* determine_PR_status as a pure function of a date and a state *)

ClassifyStatus ==
    /\ pc = "classify"
    /\ status' = determine_PR_status(date, state)
    /\ pc' = "classified"
    /\ UNCHANGED << creation_time, events, result, curr_state, now,
                    evolution_status, total, last, heap, refs, date, state >>

InitStatus ==
    /\ pc = "classify"
    /\ creation_time = 0
    /\ events = << >>
    /\ curr_state = InitialState
    /\ result = << >>
    /\ heap = << >>
    /\ refs = << >>
    /\ now = 0
    /\ evolution_status = << >>
    /\ total = [st \in PRStatus |-> 0]
    /\ last = 0
    /\ date \in Dates
    /\ state \in {PRState(l, c, d) :
                     l \in SeqsUpTo(LabelKind, MaxLabels),
                     c \in CIStatus, d \in BOOLEAN}
    /\ status = "Closed"

NextStatus == ClassifyStatus

SpecStatus == InitStatus /\ [][NextStatus]_vars

----------------------------------------------------------------------------
(* total_queue_time over a longer span of time: the timeline of a PR whose   *)
(* events add and remove a blocked label and a WIP label                     *)

\* one instant before the cutover, the cutover, and the instants after it
QueueTimes == (Cutover - 1)..MaxQueueTime
QueueNames == {"blocked-by-other-PR", "WIP"}

QueueLabelAdded ==
    \E t \in QueueTimes, n \in QueueNames :
        Len(events) < MaxEvents /\ Step(add_label(t, n))

QueueLabelRemoved ==
    \E t \in QueueTimes, n \in QueueNames :
        Len(events) < MaxEvents /\ Step(remove_label(t, n))

QueueAggregate == \E n \in QueueTimes : AggregateAt(n)

InitQueue ==
    /\ pc = "fold"
    /\ creation_time \in QueueTimes
    /\ events = << >>
    /\ curr_state = InitialState
    /\ result = << [time |-> creation_time, state |-> curr_state] >>
    /\ heap = << curr_state.labels >>
    /\ refs = << 1 >>
    /\ now = 0
    /\ evolution_status = << >>
    /\ total = [st \in PRStatus |-> 0]
    /\ last = 0
    /\ date = 0
    /\ state = InitialState
    /\ status = "Closed"

NextQueue ==
    \/ QueueLabelAdded
    \/ QueueLabelRemoved
    \/ QueueAggregate

SpecQueue == InitQueue /\ [][NextQueue]_vars

----------------------------------------------------------------------------
(* Several labels of one kind: the timeline of a PR created after the        *)
(* cutover whose events add and remove the two names of the Blocked kind     *)

BlockedTimes == (Cutover + 1)..MaxTime
BlockedNames == {"blocked-by-other-PR", "blocked-by-core-PR"}

BlockedLabelAdded ==
    \E t \in BlockedTimes, n \in BlockedNames :
        Len(events) < MaxBlockedEvents /\ Step(add_label(t, n))

BlockedLabelRemoved ==
    \E t \in BlockedTimes, n \in BlockedNames :
        Len(events) < MaxBlockedEvents /\ Step(remove_label(t, n))

BlockedAggregate == \E n \in BlockedTimes : AggregateAt(n)

InitBlocked ==
    /\ pc = "fold"
    /\ creation_time \in BlockedTimes
    /\ events = << >>
    /\ curr_state = InitialState
    /\ result = << [time |-> creation_time, state |-> curr_state] >>
    /\ heap = << curr_state.labels >>
    /\ refs = << 1 >>
    /\ now = 0
    /\ evolution_status = << >>
    /\ total = [st \in PRStatus |-> 0]
    /\ last = 0
    /\ date = 0
    /\ state = InitialState
    /\ status = "Closed"

NextBlocked ==
    \/ BlockedLabelAdded
    \/ BlockedLabelRemoved
    \/ BlockedAggregate

SpecBlocked == InitBlocked /\ [][NextBlocked]_vars

----------------------------------------------------------------------------
(* Properties of determine_PR_status, checked under SpecStatus *)

\* the labels of the classified state that are not Other
RelevantLabels == SelectSeqIn(state.labels, LabelKind \ {"Other"})

\* the contradictory pairs of label kinds the documentation lists
DocumentedContradictions ==
    {{"Decision", k} : k \in {"Author", "Review", "Delegated", "Bors", "WIP"}}
        \cup {{"WIP", "Review"}, {"WIP", "Bors"}, {"Author", "Review"},
              {"Bors", "Blocked"}}

HasContradictoryPair(labels) ==
    \E pair \in DocumentedContradictions : pair \subseteq Range(labels)

\* the documented ranking:
\* Blocked > WorkInProgress > Decision > MergeConflict > Bors > {Author, Review} > Delegated
DocumentedRank(k) ==
    CASE k = "Blocked" -> 7
      [] k = "WIP" -> 6
      [] k = "Decision" -> 5
      [] k = "MergeConflict" -> 4
      [] k = "Bors" -> 3
      [] k \in {"Author", "Review"} -> 2
      [] k = "Delegated" -> 1

\* the state was classified past the draft and CI checks
ClassifiedReady == pc = "classified" /\ ~state.draft /\ state.ci # "Fail"

\* C1: a non-draft state with ci # Fail, at least two non-Other labels and no
\* documented contradictory pair classifies as the mapped status of its
\* highest-ranked label kind under the documented ranking (Decision above
\* MergeConflict above Bors).
C1_DocumentedRanking ==
    (ClassifiedReady /\ Len(RelevantLabels) >= 2
        /\ ~HasContradictoryPair(RelevantLabels))
    => \E k \in Range(RelevantLabels) :
           /\ \A k2 \in Range(RelevantLabels) : DocumentedRank(k2) <= DocumentedRank(k)
           /\ status = label_to_prstatus(k)

\* C2: a non-draft state with ci # Fail whose labels contain a documented
\* contradictory pair classifies as Contradictory, whatever else it holds.
C2_ContradictoryPair ==
    (ClassifiedReady /\ HasContradictoryPair(state.labels))
    => status = "Contradictory"

\* C2 witness: Bors and Blocked together with a third, higher-ranked or
\* duplicate label were classified.
C2_Witness ==
    /\ ClassifiedReady
    /\ {"Bors", "Blocked"} \subseteq Range(state.labels)
    /\ Len(state.labels) = 3
    /\ status = "Contradictory"

Reorderings(s) ==
    {[i \in 1..Len(s) |-> s[f[i]]] :
        f \in {g \in [1..Len(s) -> 1..Len(s)] :
                  \A i, j \in 1..Len(s) : g[i] = g[j] => i = j}}

\* C4: the status of a state equals the status of every state that holds the
\* same labels in another order (same date, ci and draft flag).
C4_PermutationInvariant ==
    pc = "classified"
    => \A p \in Reorderings(state.labels) :
           determine_PR_status(date, [state EXCEPT !.labels = p]) = status

\* C4 witness: three labels of different kinds, one of them Other, were
\* classified by the priority order.
C4_Witness ==
    /\ ClassifiedReady
    /\ Len(state.labels) = 3
    /\ Cardinality(Range(state.labels)) = 3
    /\ "Other" \in Range(state.labels)
    /\ status \notin {"Contradictory", "NotReady"}
    /\ Len(RelevantLabels) = 2

LabelFreePassing ==
    pc = "classified" /\ state.labels = << >> /\ ~state.draft /\ state.ci = "Pass"

\* C5 as stated: a label-free, non-draft, CI-passing state is AwaitingAuthor
\* strictly before the cutover and AwaitingReview at or after it.
C5_CutoverAtOrAfter ==
    LabelFreePassing
    => status = IF date < Cutover THEN "AwaitingAuthor" ELSE "AwaitingReview"

\* C5 amended: a label-free, non-draft, CI-passing state is AwaitingAuthor at
\* or before the cutover instant and AwaitingReview strictly after it.
C5_CutoverStrictlyAfter ==
    LabelFreePassing
    => status = IF date > Cutover THEN "AwaitingReview" ELSE "AwaitingAuthor"

\* C5 witness: a label-free state was classified at the cutover instant itself.
C5_Witness == LabelFreePassing /\ date = Cutover /\ status = "AwaitingAuthor"

\* C6: a state with draft = TRUE or ci = Fail classifies as NotReady, whatever
\* its labels and the date.
C6_DraftOrFailNotReady ==
    (pc = "classified" /\ (state.draft \/ state.ci = "Fail"))
    => status = "NotReady"

\* C6 witness: a non-draft state with failing CI and a contradictory pair of
\* labels was classified.
C6_Witness ==
    /\ pc = "classified"
    /\ ~state.draft
    /\ state.ci = "Fail"
    /\ HasContradictoryPair(state.labels)
    /\ status = "NotReady"

----------------------------------------------------------------------------
(* Properties of update_state, checked under SpecUpdate *)

\* the names a LabelAddedRemoved event removes after cancelling the names in
\* both lists and dropping the unmapped ones
EffectiveRemoved(ev) ==
    SelectSeqIn(ev.extra.removed,
                DOMAIN label_categorisation_rules
                    \ (Range(ev.extra.added) \cap Range(ev.extra.removed)))

AdditionOnly(ev) ==
    \/ ev.change = "LabelAdded"
    \/ ev.change = "LabelAddedRemoved" /\ EffectiveRemoved(ev) = << >>

\* C3: in the status timeline, an entry after a Contradictory entry that is
\* reached through label additions only is Contradictory too.
C3_ContradictoryPersists ==
    LET evo == determine_status_changes(result) IN
    \A i, j \in 1..Len(result) :
        (/\ i < j
         /\ evo[i].status = "Contradictory"
         /\ \A k \in i..(j - 1) : AdditionOnly(events[k]))
        => evo[j].status = "Contradictory"

\* C3 witness: a contradictory state got a Blocked label by LabelAdded and
\* then one more label by a LabelAddedRemoved event that removes nothing.
C3_Witness ==
    /\ Len(result) = 3
    /\ determine_PR_status(result[1].time, result[1].state) = "Contradictory"
    /\ events[1].change = "LabelAdded"
    /\ events[1].extra.name = "blocked-by-other-PR"
    /\ events[2].change = "LabelAddedRemoved"
    /\ EffectiveRemoved(events[2]) = << >>
    /\ Len(result[3].state.labels) = Len(result[1].state.labels) + 2
    /\ determine_PR_status(result[3].time, result[3].state) = "Contradictory"

Count(s, x) == Cardinality({i \in 1..Len(s) : s[i] = x})

\* event i adds a mapped label name and event i + 1 removes the same name
AddThenRemove(i) ==
    /\ i + 1 <= Len(events)
    /\ events[i].change = "LabelAdded"
    /\ events[i].extra.name \in DOMAIN label_categorisation_rules
    /\ events[i + 1].change = "LabelRemoved"
    /\ events[i + 1].extra.name = events[i].extra.name

\* C7 as stated: LabelAdded(n) followed by LabelRemoved(n) yields a state equal
\* to the state before in every field, the ordered label sequence included.
C7_RoundTripSequence ==
    \A i \in 1..Len(events) :
        AddThenRemove(i)
        => /\ Len(result) >= i + 2
           /\ result[i + 2].state = result[i].state

\* C7 amended: LabelAdded(n) followed by LabelRemoved(n) yields a state with
\* the same ci, the same draft flag and the same labels counted by kind; the
\* ordered label sequence is the same when the state before did not hold the
\* kind of n.
C7_RoundTripMultiset ==
    \A i \in 1..Len(events) :
        AddThenRemove(i)
        => /\ Len(result) >= i + 2
           /\ result[i + 2].state.ci = result[i].state.ci
           /\ result[i + 2].state.draft = result[i].state.draft
           /\ \A k \in LabelKind :
                  Count(result[i + 2].state.labels, k)
                      = Count(result[i].state.labels, k)
           /\ (~Contains(result[i].state.labels,
                         label_categorisation_rules[events[i].extra.name])
               => result[i + 2].state.labels = result[i].state.labels)

\* C7 witness: a label was added to and removed from a state that held its
\* kind before another kind, and the order of the labels changed.
C7_Witness ==
    /\ AddThenRemove(1)
    /\ Len(result) = 3
    /\ result[1].state.labels = << "Blocked", "Author" >>
    /\ result[3].state.labels = << "Author", "Blocked" >>

----------------------------------------------------------------------------
(* Properties of the timeline and its aggregation, checked under Spec *)

\* C8: the state timeline and the status timeline of an event list processed
\* without error have len(events) + 1 entries, and the length assertion of
\* the aggregation never fails.
C8_TimelineLengths ==
    /\ pc # "LengthAssertionError"
    /\ pc \in {"fold", "done"} => Len(result) = Len(events) + 1
    /\ pc = "done" => Len(evolution_status) = Len(events) + 1

\* C8 witness: the aggregation ran on two events of which the second left
\* the status as it was.
C8_Witness ==
    /\ pc = "done"
    /\ Len(events) = 2
    /\ Len(evolution_status) = 3
    /\ evolution_status[2].status = evolution_status[3].status

\* status and duration of entry i of the state timeline
EntryStatus(i) == determine_PR_status(result[i].time, result[i].state)
EntryGap(i) ==
    (IF i < Len(result) THEN result[i + 1].time ELSE now) - result[i].time

RECURSIVE SumOfGaps(_)
SumOfGaps(entries) ==
    IF entries = {} THEN 0
    ELSE LET i == CHOOSE x \in entries : TRUE
         IN  EntryGap(i) + SumOfGaps(entries \ {i})

\* C9: total_time_in_status is the sum, over the entries whose status (from
\* the entry's own state and timestamp) is the target, of the gap to the next
\* entry's timestamp, the last entry's gap running to now; total_queue_time
\* is that sum for AwaitingReview.
C9_TotalIsSumOfGaps ==
    pc = "done"
    => /\ \A st \in PRStatus :
              total[st] = SumOfGaps({i \in 1..Len(result) : EntryStatus(i) = st})
       /\ total_queue_time(evolution_status, now)
              = SumOfGaps({i \in 1..Len(result) : EntryStatus(i) = "AwaitingReview"})

\* C9 witness: a PR awaiting review got blocked and unblocked, and the time
\* before and after counts.
C9_Witness ==
    /\ pc = "done"
    /\ Len(result) = 3
    /\ EntryStatus(1) = "AwaitingReview"
    /\ EntryStatus(2) = "Blocked"
    /\ EntryStatus(3) = "AwaitingReview"
    /\ EntryGap(1) = 1
    /\ EntryGap(3) = 1
    /\ total["AwaitingReview"] = 2

\* C10: last_status_update is now minus the last event's timestamp, and now
\* minus creation_time when there is no event.
C10_LastStatusUpdate ==
    pc = "done"
    => last = now - (IF events = << >> THEN creation_time
                     ELSE events[Len(events)].time)

\* C10 witness: the last of two events is later than the creation and
\* earlier than now.
C10_Witness ==
    /\ pc = "done"
    /\ Len(events) = 2
    /\ events[2].time > creation_time
    /\ last = 1

\* C19: entry i + 1 of the state timeline carries the timestamp of event i
\* and the state update_state returns for entry i's state and event i, in
\* input order, whatever the timestamps are.
C19_EntriesFollowEvents ==
    /\ \A i \in 1..(Len(result) - 1) :
           /\ result[i + 1].time = events[i].time
           /\ update_state(result[i].state, events[i]).raised = "none"
           /\ result[i + 1].state = update_state(result[i].state, events[i]).state
    /\ Len(events) \in {Len(result) - 1, Len(result)}
    /\ Len(events) = Len(result)
           => update_state(result[Len(result)].state,
                           events[Len(events)]).raised # "none"

\* C19 witness: the same event twice and then an event with an earlier
\* timestamp gave three entries.
C19_Witness ==
    /\ Len(events) = 3
    /\ Len(result) = 4
    /\ events[1] = events[2]
    /\ events[1].change = "LabelAdded"
    /\ events[3].time < events[2].time
    /\ creation_time > events[1].time

\* C20: a step never changes an entry the timeline already holds.
C20_EntriesNeverChange ==
    [][\A i \in 1..Len(result) : result'[i] = result[i]]_vars

\* C20 witness: a label was added, the PR was marked draft or its CI changed,
\* and the label was removed: the two earlier entries share one list object
\* and still hold the label.
C20_Witness ==
    /\ Len(result) = 4
    /\ events[1].change = "LabelAdded"
    /\ events[2].change \in {"MarkedDraft", "CIStatusChanged"}
    /\ events[3].change \in {"LabelRemoved", "LabelAddedRemoved"}
    /\ refs[3] = refs[2]
    /\ result[2].state.labels = << "WIP" >>
    /\ result[3].state.labels = << "WIP" >>
    /\ result[4].state.labels = << >>

\* the timestamp of the most recent entry whose status differs from the entry
\* before it, the creation time when no entry does
LastChangeTime ==
    LET changes == {i \in 2..Len(result) : EntryStatus(i) # EntryStatus(i - 1)}
    IN  IF changes = {} THEN creation_time
        ELSE result[CHOOSE i \in changes : \A j \in changes : j <= i].time

\* C11 as stated: last_status_update is the time since the status last
\* changed: now minus the timestamp of the most recent entry whose status
\* differs from the entry before it (now minus creation_time when the status
\* never changed); an event that leaves the status unchanged does not reset it.
C11_SinceLastStatusChange ==
    pc = "done" => last = now - LastChangeTime

\* event i is a LabelRemoved of a mapped name
MappedRemoval(i) ==
    /\ events[i].change = "LabelRemoved"
    /\ events[i].extra.name \in DOMAIN label_categorisation_rules

\* the computation was aborted by an exception: the timeline stops before the
\* failing event and no status timeline or duration was returned
Aborted ==
    /\ pc \in {"ValueError", "AssertionError"}
    /\ Len(result) = Len(events)
    /\ evolution_status = << >>
    /\ \A st \in PRStatus : total[st] = 0
    /\ last = 0

\* C12: a LabelRemoved of a mapped name whose kind does not occur in the
\* current label sequence is a hard error: update_state raises, it is the
\* last event processed, and the timeline functions built on it return
\* neither a partial timeline nor a duration; it is never passed over.
C12_MissingKindRaises ==
    \A i \in 1..Len(events) :
        ( /\ MappedRemoval(i)
          /\ ~Contains(result[i].state.labels,
                       label_categorisation_rules[events[i].extra.name]) )
        => /\ update_state(result[i].state, events[i]).raised = "ValueError"
           /\ i = Len(events)
           /\ pc = "ValueError"
           /\ Aborted

\* C12 witness: a PR holding WIP has a blocked label removed.
C12_Witness ==
    /\ pc = "ValueError"
    /\ Len(events) = 2
    /\ events[1] = add_label(events[1].time, "WIP")
    /\ events[2] = remove_label(events[2].time, "blocked-by-other-PR")
    /\ curr_state.labels = << "WIP" >>
    /\ Len(result) = 2

\* how often the label name n was added minus how often it was removed by
\* the first k events
RECURSIVE NameBalance(_, _)
NameBalance(n, k) ==
    IF k = 0 THEN 0
    ELSE LET ev == events[k]
             d == IF ev.change = "LabelAdded" /\ ev.extra.name = n THEN 1
                  ELSE IF ev.change = "LabelRemoved" /\ ev.extra.name = n THEN 0 - 1
                  ELSE IF ev.change = "LabelAddedRemoved"
                  THEN Count(ev.extra.added, n) - Count(ev.extra.removed, n)
                  ELSE 0
         IN  d + NameBalance(n, k - 1)

\* C13 as stated: a LabelRemoved event whose mapped label name is not on the
\* PR at that moment (the name was not added more often than removed by the
\* events before) fails fast: no timeline entry is produced for it.
C13_MissingNameFailsFast ==
    \A i \in 1..Len(events) :
        (MappedRemoval(i) /\ NameBalance(events[i].extra.name, i - 1) <= 0)
        => Len(result) <= i

\* [l for l in s if l not in drop]
RECURSIVE Without(_, _)
Without(s, drop) ==
    IF s = << >> THEN << >>
    ELSE IF Head(s) \in drop
         THEN Without(Tail(s), drop)
         ELSE << Head(s) >> \o Without(Tail(s), drop)

\* the LabelAddedRemoved event ev with every name that occurs in both of its
\* lists dropped from both
Cancelled(ev) ==
    LET both == Range(ev.extra.added) \cap Range(ev.extra.removed)
    IN  add_remove_labels(ev.time, Without(ev.extra.added, both),
                          Without(ev.extra.removed, both))

\* every name of the LabelAddedRemoved event ev occurs in both of its lists
OnlyCancelling(ev) ==
    /\ ev.change = "LabelAddedRemoved"
    /\ ev.extra.added # << >>
    /\ Range(ev.extra.added) = Range(ev.extra.removed)

\* C14: in a LabelAddedRemoved event every name that occurs in both lists is
\* dropped from both before anything is applied: the event acts as the event
\* without those names, and an event all of whose names occur in both lists
\* produces an entry with the state unchanged and raises no error, also when
\* the kind of such a name is not held.
C14_CancelledNames ==
    \A i \in 1..Len(events) :
        events[i].change = "LabelAddedRemoved"
        => /\ update_state(result[i].state, events[i])
                  = update_state(result[i].state, Cancelled(events[i]))
           /\ OnlyCancelling(events[i])
                  => /\ Len(result) > i
                     /\ result[i + 1].state = result[i].state

\* C14 witness: WIP and awaiting-zulip are both added and removed, in
\* different orders, on a PR that holds neither kind.
C14_Witness ==
    /\ Len(events) >= 1
    /\ events[1] = add_remove_labels(0, << "WIP", "awaiting-zulip" >>,
                                     << "awaiting-zulip", "WIP" >>)
    /\ result[1].state.labels = << "Author" >>
    /\ Len(result) >= 2
    /\ result[2].state = result[1].state
    /\ pc = "fold"

\* update_state folded over the events evs from the state s, stopping at the
\* first event that raises
RECURSIVE ApplyEach(_, _)
ApplyEach(s, evs) ==
    IF evs = << >> THEN Returned(s)
    ELSE LET r == update_state(s, Head(evs))
         IN  IF r.raised # "none" THEN r
             ELSE ApplyEach(r.state, Tail(evs))

\* the names left of the LabelAddedRemoved event ev after cancelling, as
\* single events: the removals in list order, then the additions in list order
Individually(ev) ==
    LET c == Cancelled(ev)
    IN  [i \in 1..Len(c.extra.removed) |-> remove_label(ev.time, c.extra.removed[i])]
            \o [i \in 1..Len(c.extra.added) |-> add_label(ev.time, c.extra.added[i])]

\* C15: a LabelAddedRemoved event, after cancelling, acts as its remaining
\* removals applied one by one as LabelRemoved events in list order followed
\* by its remaining additions applied one by one as LabelAdded events in list
\* order, unmapped names ignored: it raises exactly when one of those raises,
\* and otherwise yields the same state.
C15_AsIndividualEvents ==
    \A i \in 1..Len(events) :
        events[i].change = "LabelAddedRemoved"
        => LET once == update_state(result[i].state, events[i])
               each == ApplyEach(result[i].state, Individually(events[i]))
           IN  /\ once.raised = each.raised
               /\ once.raised = "none" => once.state = each.state

\* C15 witness: one event removes WIP and awaiting-zulip and adds
\* awaiting-author on a PR holding Decision, WIP, in the other order.
C15_Witness ==
    /\ Len(events) >= 1
    /\ events[1] = add_remove_labels(0, << "awaiting-author" >>,
                                     << "WIP", "awaiting-zulip" >>)
    /\ result[1].state.labels = << "Decision", "WIP" >>
    /\ Len(result) >= 2
    /\ result[2].state.labels = << "Author" >>

\* C16: an event whose change is none of the PRChange variants makes
\* update_state fail its assertion: the timeline computation is aborted, and
\* there is no entry for that event or for any event after it.
C16_UnknownChangeAborts ==
    \A i \in 1..Len(events) :
        events[i].change \notin PRChange
        => /\ update_state(result[i].state, events[i]).raised = "AssertionError"
           /\ i = Len(events)
           /\ pc = "AssertionError"
           /\ Aborted

\* C16 witness: two events were processed and the third has an unknown
\* change.
C16_Witness ==
    /\ pc = "AssertionError"
    /\ Len(events) = 3
    /\ events[3].change = "Closed"
    /\ events[1].change = "LabelAdded"
    /\ Len(result) = 3
    /\ result[3].state.labels # << >>

\* the kinds that the LabelAddedRemoved event ev removes after cancelling
RemovedKinds(ev) ==
    MapSeq(label_categorisation_rules,
           SelectSeqIn(Cancelled(ev).extra.removed,
                       DOMAIN label_categorisation_rules))

\* the event ev is a data-integrity error in the state s: its change is no
\* PRChange variant, or it removes a kind more often than s holds it
IntegrityError(s, ev) ==
    \/ ev.change \notin PRChange
    \/ /\ ev.change = "LabelRemoved"
       /\ ev.extra.name \in DOMAIN label_categorisation_rules
       /\ ~Contains(s.labels, label_categorisation_rules[ev.extra.name])
    \/ /\ ev.change = "LabelAddedRemoved"
       /\ \E k \in LabelKind :
              Count(RemovedKinds(ev), k) > Count(s.labels, k)

\* every name of the event ev is unmapped
UnmappedOnly(ev) ==
    \/ /\ ev.change \in {"LabelAdded", "LabelRemoved"}
       /\ ev.extra.name \notin DOMAIN label_categorisation_rules
    \/ /\ ev.change = "LabelAddedRemoved"
       /\ Range(ev.extra.added) \cup Range(ev.extra.removed) # {}
       /\ (Range(ev.extra.added) \cup Range(ev.extra.removed))
              \cap DOMAIN label_categorisation_rules = {}

\* C17: the timeline computation fails only for data-integrity errors.  An
\* event that adds or removes unmapped names only, the removal of a name
\* never added included, produces an entry with the state unchanged; adding
\* a label never fails, whatever combination results; and every entry, a
\* contradictory one included, has a status.
C17_OnlyIntegrityErrorsAbort ==
    /\ pc # "fold"
           => /\ Len(result) = Len(events)
              /\ IntegrityError(result[Len(result)].state, events[Len(events)])
    /\ \A i \in 1..Len(events) :
           /\ UnmappedOnly(events[i])
                  => Len(result) > i /\ result[i + 1].state = result[i].state
           /\ events[i].change = "LabelAdded" => Len(result) > i
    /\ \A i \in 1..Len(result) : EntryStatus(i) \in PRStatus

\* C17 witness: an unmapped name that was never added is removed, and the
\* next label makes the PR contradictory; both events have an entry.
C17_Witness ==
    /\ pc = "fold"
    /\ Len(events) = 2
    /\ events[1] = remove_label(0, "easy")
    /\ events[2].change = "LabelAdded"
    /\ Len(result) = 3
    /\ EntryStatus(2) # "Contradictory"
    /\ EntryStatus(3) = "Contradictory"

\* C18: the first entry of the state timeline is the creation time with the
\* state of no labels, ci = Pass and not draft, whatever the events are; the
\* first entry of the status timeline is the creation time with the status
\* of that state at the creation time.
C18_FirstEntry ==
    /\ result[1] = [time |-> creation_time,
                    state |-> PRState(<< >>, "Pass", FALSE)]
    /\ pc = "done"
           => evolution_status[1] =
                  [time |-> creation_time,
                   status |-> determine_PR_status(creation_time,
                                  PRState(<< >>, "Pass", FALSE))]

\* C18 witness: a PR created after the cutover whose events left it draft
\* with a label: its first status entry is AwaitingReview at creation.
C18_Witness ==
    /\ pc = "done"
    /\ Len(events) >= 2
    /\ curr_state.draft
    /\ curr_state.labels # << >>
    /\ creation_time > Cutover
    /\ evolution_status[1] = [time |-> creation_time, status |-> "AwaitingReview"]

----------------------------------------------------------------------------
(* Further properties of determine_PR_status, checked under SpecStatus *)

\* the status the documentation gives for a single label kind
DirectMapping ==
    [k \in LabelKind \ {"Other"} |->
        CASE k = "WIP" -> "NotReady"
          [] k = "Review" -> "AwaitingReview"
          [] k = "Author" -> "AwaitingAuthor"
          [] k = "Blocked" -> "Blocked"
          [] k = "MergeConflict" -> "MergeConflict"
          [] k = "Decision" -> "AwaitingDecision"
          [] k = "Delegated" -> "Delegated"
          [] k = "Bors" -> "AwaitingBors"]

\* C21: a non-draft state with ci # Fail that holds exactly one non-Other
\* label classifies as that label's direct mapping, on every date.
C21_SingleLabelMapping ==
    (ClassifiedReady /\ Len(RelevantLabels) = 1)
    => /\ status = DirectMapping[RelevantLabels[1]]
       /\ \A d \in Dates : determine_PR_status(d, state) = status

\* C21 witness: a state holding Review among Other labels was classified
\* before the cutover, with CI running.
C21_Witness ==
    /\ ClassifiedReady
    /\ state.labels = << "Other", "Review", "Other" >>
    /\ state.ci = "Running"
    /\ date < Cutover
    /\ status = "AwaitingReview"

----------------------------------------------------------------------------
(* Properties of total_queue_time, checked under SpecQueue and Spec *)

\* the PR was created after the cutover and the events, the creation and now
\* are in chronological order
CreatedAfterCutoverInOrder ==
    /\ pc = "done"
    /\ creation_time > Cutover
    /\ \A i \in 1..Len(result) - 1 : result[i].time <= result[i + 1].time
    /\ result[Len(result)].time <= now

\* the first n events are the addition of a blocked label and its removal
BlockedAddedThenRemoved(n) ==
    /\ n >= 1 => events[1] = add_label(events[1].time, "blocked-by-other-PR")
    /\ n >= 2 => events[2] = remove_label(events[2].time, "blocked-by-other-PR")

\* C22: for a PR created after the cutover at c whose only events are the
\* addition of a blocked label at t1 and its removal at t2, with
\* c <= t1 <= t2 <= now, total_queue_time is (t1 - c) + (now - t2); when the
\* label is never removed it is t1 - c; and when a WIP label is added at
\* t3 >= t2 the queue time ends at t3: it is (t1 - c) + (t3 - t2).
C22_BlockedInterval ==
    CreatedAfterCutoverInOrder
    => LET c == creation_time
           t(i) == events[i].time
           queue == total_queue_time(evolution_status, now)
       IN  /\ (Len(events) = 1 /\ BlockedAddedThenRemoved(1))
                  => queue = t(1) - c
           /\ (Len(events) = 2 /\ BlockedAddedThenRemoved(2))
                  => queue = (t(1) - c) + (now - t(2))
           /\ ( /\ Len(events) = 3
                /\ BlockedAddedThenRemoved(2)
                /\ events[3] = add_label(t(3), "WIP") )
                  => queue = (t(1) - c) + (t(3) - t(2))

\* C22 witness: created at 1, blocked at 2, unblocked at 3, now 4: one unit of
\* queue time before the label and one after it.
C22_Witness ==
    /\ CreatedAfterCutoverInOrder
    /\ creation_time = 1
    /\ events = << add_label(2, "blocked-by-other-PR"),
                   remove_label(3, "blocked-by-other-PR") >>
    /\ now = 4
    /\ total_queue_time(evolution_status, now) = 2
    /\ total["Blocked"] = 1

\* C23: for a PR without events and now >= creation_time, total_queue_time
\* is now - creation_time when the PR was created after the cutover instant
\* and 0 when it was not, also when now lies after the cutover.
C23_NoEvents ==
    (pc = "done" /\ events = << >> /\ now >= creation_time)
    => total_queue_time(evolution_status, now)
           = IF creation_time > Cutover THEN now - creation_time ELSE 0

\* C23 witness: a PR created before the cutover, without events, seen after
\* the cutover: no queue time, all of the time awaiting the author.
C23_Witness ==
    /\ pc = "done"
    /\ events = << >>
    /\ creation_time < Cutover
    /\ now > Cutover + 1
    /\ total_queue_time(evolution_status, now) = 0
    /\ total["AwaitingAuthor"] = now - creation_time

----------------------------------------------------------------------------
(* Further properties of the timeline, checked under Spec and SpecUpdate *)

\* event i adds or removes a single unmapped label name
IrrelevantLabelEvent(i) ==
    /\ events[i].change \in {"LabelAdded", "LabelRemoved"}
    /\ events[i].extra.name \notin DOMAIN label_categorisation_rules

\* C24 as stated: an event that adds or removes an unmapped label changes
\* neither the state nor the status: its entry has the state and the status
\* of the entry immediately before it.
C24_IrrelevantLabelKeepsStatus ==
    \A i \in 1..Len(events) :
        IrrelevantLabelEvent(i)
        => /\ Len(result) > i
           /\ result[i + 1].state = result[i].state
           /\ EntryStatus(i + 1) = EntryStatus(i)

\* the events among the first k that mark the PR draft or ready
DraftEvents(k) ==
    {i \in 1..k : events[i].change \in {"MarkedDraft", "MarkedReady"}}

\* C25: the draft flag of every entry is true exactly when the most recent
\* MarkedDraft or MarkedReady event before it is a MarkedDraft (false when
\* there is none), and MarkedDraft on a draft state or MarkedReady on a
\* non-draft state yields an equal state.
C25_DraftLastWriteWins ==
    /\ \A j \in 1..Len(result) :
           LET ds == DraftEvents(j - 1)
           IN  result[j].state.draft
                   = ( /\ ds # {}
                       /\ events[CHOOSE i \in ds : \A k \in ds : k <= i].change
                              = "MarkedDraft" )
    /\ \A i \in 1..Len(events) :
           ( \/ events[i].change = "MarkedDraft" /\ result[i].state.draft
             \/ events[i].change = "MarkedReady" /\ ~result[i].state.draft )
           => /\ Len(result) > i
              /\ result[i + 1].state = result[i].state

\* C25 witness: a PR marked draft got a label and was marked draft again.
C25_Witness ==
    /\ Len(result) = 4
    /\ events[1].change = "MarkedDraft"
    /\ events[2].change = "LabelAdded"
    /\ events[3].change = "MarkedDraft"
    /\ result[3].state.labels # << >>
    /\ result[4].state = result[3].state
    /\ result[4].state.draft

----------------------------------------------------------------------------
(* Further properties of determine_PR_status, checked under SpecStatus *)

\* C26: running CI is treated as passing: a state with ci = Running
\* classifies as the same state with ci = Pass, for every date, label
\* sequence and draft flag.
C26_RunningAsPass ==
    (pc = "classified" /\ state.ci = "Running")
    => status = determine_PR_status(date, [state EXCEPT !.ci = "Pass"])

\* C26 witness: a label-free PR with running CI was classified after the
\* cutover as awaiting review.
C26_Witness ==
    /\ pc = "classified"
    /\ state = PRState(<< >>, "Running", FALSE)
    /\ date > Cutover
    /\ status = "AwaitingReview"

\* C27: a non-draft state with ci # Fail holding at least one non-Other
\* label classifies as Contradictory or as the mapped status of a label kind
\* it holds; and no input classifies as Closed.
C27_StatusOfHeldLabel ==
    /\ (ClassifiedReady /\ RelevantLabels # << >>)
           => \/ status = "Contradictory"
              \/ \E k \in Range(RelevantLabels) : status = DirectMapping[k]
    /\ pc = "classified" => status # "Closed"

\* C27 witness: a state holding MergeConflict, Other and Delegated was
\* classified as MergeConflict.
C27_Witness ==
    /\ ClassifiedReady
    /\ state.labels = << "Delegated", "Other", "MergeConflict" >>
    /\ status = "MergeConflict"

\* C28: Other labels have no bearing on the status: a state classifies as
\* the state with every Other entry deleted from its label sequence (so
\* inserting or deleting Other entries anywhere changes nothing), and a state
\* whose labels are all Other classifies as the label-free state.
C28_OtherIgnored ==
    pc = "classified"
    => /\ status = determine_PR_status(date,
                       PRState(RelevantLabels, state.ci, state.draft))
       /\ Range(state.labels) \subseteq {"Other"}
              => status = determine_PR_status(date,
                              PRState(<< >>, state.ci, state.draft))

\* C28 witness: a state holding only Other labels was classified after the
\* cutover as awaiting review.
C28_Witness ==
    /\ ClassifiedReady
    /\ state.labels = << "Other", "Other" >>
    /\ date > Cutover
    /\ status = "AwaitingReview"

----------------------------------------------------------------------------
(* Further properties of update_state, checked under SpecUpdate and Spec *)

\* C29: each event changes only its own component of the state: MarkedDraft
\* and MarkedReady leave labels and ci alone, CIStatusChanged sets ci to its
\* payload and leaves labels and draft alone, and LabelAdded, LabelRemoved
\* and LabelAddedRemoved leave ci and draft alone.
C29_OwnComponentOnly ==
    \A i \in 1..(Len(result) - 1) :
        LET before == result[i].state
            after == result[i + 1].state
            change == events[i].change
        IN  /\ change \in {"MarkedDraft", "MarkedReady"}
                   => after.labels = before.labels /\ after.ci = before.ci
            /\ change = "CIStatusChanged"
                   => /\ after.ci = events[i].extra.new_state
                      /\ after.labels = before.labels
                      /\ after.draft = before.draft
            /\ change \in {"LabelAdded", "LabelRemoved", "LabelAddedRemoved"}
                   => after.ci = before.ci /\ after.draft = before.draft

\* C29 witness: the CI of a draft PR holding labels started running, and then
\* a held label was removed.
C29_Witness ==
    /\ Len(result) = 3
    /\ result[1].state.draft
    /\ result[1].state.ci = "Fail"
    /\ Len(result[1].state.labels) = 2
    /\ events[1] = update_ci_status(0, "Running")
    /\ events[2].change = "LabelRemoved"
    /\ result[2].state = PRState(result[1].state.labels, "Running", TRUE)
    /\ Len(result[3].state.labels) = 1
    /\ result[3].state.ci = "Running"
    /\ result[3].state.draft

----------------------------------------------------------------------------
(* Draft and failing CI along the timeline, checked under Spec *)

\* no event between event i and entry j has one of the changes
NoneBetween(i, j, changes) ==
    \A k \in (i + 1)..(j - 1) : events[k].change \notin changes

\* entry j is NotReady, in the state timeline and in the status timeline
EntryNotReady(j) ==
    /\ EntryStatus(j) = "NotReady"
    /\ pc = "done" => evolution_status[j].status = "NotReady"

\* C30: every entry from a MarkedDraft event up to, not including, the next
\* MarkedReady event is NotReady, whatever label and CI events lie between;
\* and every entry from a CIStatusChanged event to Fail up to the next
\* CIStatusChanged event is NotReady, whatever label and draft events lie
\* between.
C30_NotReadySpans ==
    \A i \in 1..Len(events) : \A j \in (i + 1)..Len(result) :
        /\ (events[i].change = "MarkedDraft" /\ NoneBetween(i, j, {"MarkedReady"}))
               => EntryNotReady(j)
        /\ ( /\ events[i] = update_ci_status(events[i].time, "Fail")
             /\ NoneBetween(i, j, {"CIStatusChanged"}) )
               => EntryNotReady(j)

\* C30 witness: a PR was marked draft, got a blocked label and passing CI;
\* the three entries are NotReady in the status timeline.
C30_Witness ==
    /\ pc = "done"
    /\ Len(events) = 3
    /\ events[1].change = "MarkedDraft"
    /\ events[2] = add_label(events[2].time, "blocked-by-other-PR")
    /\ events[3] = update_ci_status(events[3].time, "Pass")
    /\ \A j \in 2..4 : evolution_status[j].status = "NotReady"
    /\ evolution_status[1].status # "NotReady"

----------------------------------------------------------------------------
(* Several labels of one kind, checked under SpecBlocked *)

\* how many of the first k events have the change c
ChangesAmong(k, c) == Cardinality({i \in 1..k : events[i].change = c})

\* the PR was created after the cutover and all its events add or remove a
\* name of the Blocked kind after the cutover
BlockedLabelsOnly ==
    /\ creation_time > Cutover
    /\ \A i \in 1..Len(events) :
           /\ events[i].change \in {"LabelAdded", "LabelRemoved"}
           /\ events[i].extra.name \in DOMAIN label_categorisation_rules
           /\ label_categorisation_rules[events[i].extra.name] = "Blocked"
           /\ events[i].time > Cutover

\* C31: a PR may hold several labels of one kind, and a removal takes away
\* one occurrence: on a post-cutover, non-draft, CI-passing PR whose events
\* add and remove Blocked-kind labels only, an entry is Blocked as long as
\* more such labels were added than removed (so after two additions one
\* removal leaves it Blocked), and is awaiting review once as many were
\* removed as added.
C31_OneOccurrencePerRemoval ==
    BlockedLabelsOnly
    => \A j \in 1..Len(result) :
           LET a == ChangesAmong(j - 1, "LabelAdded")
               r == ChangesAmong(j - 1, "LabelRemoved")
           IN  /\ result[j].state.labels = [i \in 1..(a - r) |-> "Blocked"]
               /\ a > r => EntryStatus(j) = "Blocked"
               /\ a = r => EntryStatus(j) = "AwaitingReview"
               /\ pc = "done" => evolution_status[j].status = EntryStatus(j)

\* C31 witness: two blocked labels of different names were added and then
\* removed; the PR stayed Blocked after the first removal and left Blocked
\* with the second.
C31_Witness ==
    /\ pc = "done"
    /\ Len(events) = 4
    /\ events[1] = add_label(events[1].time, "blocked-by-other-PR")
    /\ events[2] = add_label(events[2].time, "blocked-by-core-PR")
    /\ events[3].change = "LabelRemoved"
    /\ events[4].change = "LabelRemoved"
    /\ evolution_status[3].status = "Blocked"
    /\ evolution_status[4].status = "Blocked"
    /\ evolution_status[5].status = "AwaitingReview"

----------------------------------------------------------------------------
(* The two implementations of determine_PR_status, checked under SpecStatus *)

\* C32 as stated: determine_PR_status of classify_pr_state.py and
\* determine_PR_status of better_updated.py return the same status for every
\* date and every state.
C32_ImplementationsAgree ==
    pc = "classified" => status = classify_determine_PR_status(date, state)

----------------------------------------------------------------------------
(* The statuses partition the lifetime, checked under Spec *)

\* the events were processed without error, the creation, the events and now
\* are in chronological order
ProcessedInOrder ==
    /\ pc = "done"
    /\ \A i \in 1..Len(result) - 1 : result[i].time <= result[i + 1].time
    /\ result[Len(result)].time <= now

RECURSIVE SumOfTotals(_)
SumOfTotals(statuses) ==
    IF statuses = {} THEN 0
    ELSE LET st == CHOOSE x \in statuses : TRUE
         IN  total[st] + SumOfTotals(statuses \ {st})

\* C33: for an event log processed without error with the creation, the
\* events and now in chronological order, total_time_in_status is
\* non-negative for every status and the totals of all statuses add up to
\* now - creation_time.
C33_StatusesPartitionLifetime ==
    ProcessedInOrder
    => /\ \A st \in PRStatus : total[st] >= 0
       /\ SumOfTotals(PRStatus) = now - creation_time

\* C33 witness: a PR created at the cutover was marked WIP one instant
\* later and unmarked at now, two instants after its creation.
C33_Witness ==
    /\ ProcessedInOrder
    /\ Len(events) = 2
    /\ now - creation_time = 2
    /\ total["AwaitingAuthor"] = 1
    /\ total["NotReady"] = 1
    /\ total["AwaitingReview"] = 0
    /\ events[2].change = "LabelRemoved"

----------------------------------------------------------------------------
(* The label counts, checked under SpecUpdate and Spec *)

\* the kinds that the LabelAddedRemoved event ev adds after cancelling
AddedKinds(ev) ==
    MapSeq(label_categorisation_rules,
           SelectSeqIn(Cancelled(ev).extra.added,
                       DOMAIN label_categorisation_rules))

\* the effective additions minus the effective removals of names mapped to
\* the kind K among the first k events
RECURSIVE KindBalance(_, _)
KindBalance(K, k) ==
    IF k = 0 THEN 0
    ELSE LET ev == events[k]
             mapsToK(n) == /\ n \in DOMAIN label_categorisation_rules
                           /\ label_categorisation_rules[n] = K
             d == IF ev.change = "LabelAdded" /\ mapsToK(ev.extra.name) THEN 1
                  ELSE IF ev.change = "LabelRemoved" /\ mapsToK(ev.extra.name)
                  THEN 0 - 1
                  ELSE IF ev.change = "LabelAddedRemoved"
                  THEN Count(AddedKinds(ev), K) - Count(RemovedKinds(ev), K)
                  ELSE 0
         IN  d + KindBalance(K, k - 1)

\* C34: after any event sequence processed without error, every kind occurs
\* in the current label sequence as often as it did at the start (not at all
\* for a new PR) plus the effective additions minus the effective removals of
\* names mapped to it, names cancelled inside a LabelAddedRemoved event and
\* unmapped names not counted; the count is never negative, and Other never
\* occurs.
C34_LabelCounts ==
    LET n == Len(result)
        labels == result[n].state.labels
    IN  /\ labels = curr_state.labels
        /\ \A K \in LabelKind :
               LET counted == Count(result[1].state.labels, K)
                                  + KindBalance(K, n - 1)
               IN  Count(labels, K) = counted /\ counted >= 0
        /\ ~Contains(labels, "Other")

\* C34 witness: on a PR holding Decision and WIP one event adds
\* awaiting-author and removes WIP and awaiting-zulip, and an unmapped label
\* is added.
C34_Witness ==
    /\ Len(result) = 3
    /\ result[1].state.labels = << "Decision", "WIP" >>
    /\ events[1] = add_remove_labels(0, << "awaiting-author" >>,
                                     << "WIP", "awaiting-zulip" >>)
    /\ events[2] = add_label(0, "easy")
    /\ result[3].state.labels = << "Author" >>
    /\ KindBalance("WIP", 2) = 0 - 1
    /\ KindBalance("Author", 2) = 1

----------------------------------------------------------------------------
(* The priority step of determine_PR_status, checked under SpecStatus *)

\* the classification reached the sort: the state is not draft, its CI did
\* not fail, it holds two or more non-Other labels and none of the
\* contradiction tests matched
ReachedPriorityStep ==
    /\ ClassifiedReady
    /\ Len(RelevantLabels) >= 2
    /\ status # "Contradictory"

\* the kinds among labels whose key is the highest
TopKinds(labels) ==
    {k \in Range(labels) : \A l \in Range(labels) : key(l) <= key(k)}

\* C35: whenever determine_PR_status reaches the priority step, the highest
\* key among the labels present belongs to exactly one kind, and the status
\* is that kind's: Author and Review, of equal key, are never there together,
\* so the result does not depend on the stability of the sort.
C35_UniqueTopKind ==
    ReachedPriorityStep
    => /\ Cardinality(TopKinds(RelevantLabels)) = 1
       /\ \A k \in TopKinds(RelevantLabels) : status = label_to_prstatus(k)
       /\ ~({"Author", "Review"} \subseteq Range(RelevantLabels))

\* C35 witness: a state holding Delegated between two Author labels reached
\* the priority step and is awaiting the author.
C35_Witness ==
    /\ ReachedPriorityStep
    /\ state.labels = << "Author", "Delegated", "Author" >>
    /\ status = "AwaitingAuthor"

====
